---- MODULE Spec2Model ----
(***************************************************************************)
(* The K-Means engine of src/cpp/include/kmeans.h (class Nice::KMeans<T>). *)
(*                                                                         *)
(* Numbers of type T are modelled exactly: a centroid is a vector of       *)
(* rationals with one common denominator, [den |-> d, num |-> <<n1,..>>],  *)
(* kept in lowest terms, and a distance is compared through its square     *)
(* (the norm is monotone in the squared norm), so no rounding happens.     *)
(* Sample, cluster and weight indices are 0-based as in the source.        *)
(***************************************************************************)
EXTENDS Integers, Sequences, FiniteSets, TLC

\* ------------------------------------------------------------------ bounds
MaxCoord == 1
MaxSamples == 2
MaxK == 3
MaxFits == 2
MaxIter == 6
DrawDen == 2
MaxRand == 3
MaxWeight == 2
MaxWeights == 3
MaxDim == 2

\* ------------------------------------------------------- program constants
RANDOM == 0
KMEANSPP == 1
MANUAL == 2
\* The value of a field that the constructor leaves unwritten (K).
Indeterminate == -1

\* ----------------------------------------------------------------- inputs
\* A dataset is a function from the sample index 0..cols-1 to a point, a
\* tuple of feature values (one column of input_data).
Vec(n, S) == [0..(n - 1) -> S]

ScenarioA == [i \in 0..3 |-> CASE i = 0 -> <<0, 0>>
                               [] i = 1 -> <<0, 1>>
                               [] i = 2 -> <<10, 0>>
                               [] i = 3 -> <<10, 1>>]

\* Three samples on a line that take a second reassignment to settle.
Spread == [i \in 0..2 |-> <<i * i>>]

Datasets ==
    UNION {Vec(n, {<<x>> : x \in 0..MaxCoord}) : n \in 1..MaxSamples}
        \cup {ScenarioA, Spread}

Cols(d) == Cardinality(DOMAIN d)
Rows(d) == Len(d[0])

\* Values an uninitialized coefficient may hold.
GarbageVals == {0, 7}

\* ------------------------------------------------------------- arithmetic
Abs(x) == IF x < 0 THEN -x ELSE x

RECURSIVE Gcd(_, _)
Gcd(a, b) == IF b = 0 THEN a ELSE Gcd(b, a % b)

RECURSIVE SumSeq(_)
SumSeq(s) == IF s = <<>> THEN 0 ELSE Head(s) + SumSeq(Tail(s))

RECURSIVE GcdSeq(_, _)
GcdSeq(g, s) == IF s = <<>> THEN g ELSE GcdSeq(Gcd(g, Abs(Head(s))), Tail(s))

\* The vector num/den in lowest terms (den > 0).
Rat(den, num) ==
    LET g == GcdSeq(den, num)
    IN  [den |-> den \div g, num |-> [i \in DOMAIN num |-> num[i] \div g]]

PointOf(p) == [den |-> 1, num |-> p]

\* (c - q).squaredNorm() as the fraction n/d.
SquaredNorm(c, q) ==
    [n |-> SumSeq([i \in DOMAIN q |-> (c.num[i] - c.den * q[i]) * (c.num[i] - c.den * q[i])]),
     d |-> c.den * c.den]

\* dist < minDist on two nonnegative fractions.
Less(a, b) == a.n * b.d < b.n * a.d

\* std::numeric_limits<T>::max(): above every distance of the bounded data.
NumericLimitsMax == [n |-> 1, d |-> 0]

\* ------------------------------------------------------------- the engine
VARIABLES
    Labels,      \* Vector<T> Labels
    Random,      \* bool Random
    InitMethod,  \* int InitMethod
    K,           \* unsigned int K
    centers_,    \* Matrix<T> centers_: [rows, cols, col], col[c] a centroid
    input_data,  \* the argument of the Fit call in progress
    oldLabels,   \* local of Cluster
    iter,        \* local of Cluster
    changed,     \* local of Cluster
    oldCenters,  \* local of EstimateNewCenters
    pc,          \* position of the caller / of Fit
    seed48,      \* the process-wide drand48 generator: [mode, x]
    randCalls,   \* the process-wide rand() generator: the calls made so far
    atCall,      \* the engine's fields when the Fit call in progress began
    ran,         \* the steps the Fit call in progress has run
    tied,        \* whether an assignment of this call met two nearest centroids
    left,        \* the label assignments this call's loop has moved away from
    fits,        \* what the caller saw of the completed Fit calls
    variance,    \* what ComputeMLEVariance returned after this Fit, if called
    sampler,     \* harness of SelectWeightedIndex: [weights, result]
    ops          \* harness of CpuOperations: the last call and its outcome

vars == <<Labels, Random, InitMethod, K, centers_, input_data, oldLabels, iter,
          changed, oldCenters, pc, seed48, randCalls, atCall, ran,
          tied, left, fits, variance, sampler, ops>>

engine == <<Labels, Random, InitMethod, K, centers_, input_data, oldLabels, iter,
            changed, oldCenters, pc, seed48, randCalls, atCall, ran,
            tied, left, fits, variance>>

NoMatrix == [rows |-> 0, cols |-> 0, col |-> <<>>]

EngineInit ==
    /\ Labels = <<>>
    /\ Random = TRUE
    /\ InitMethod = KMEANSPP
    /\ K = Indeterminate
    /\ centers_ = NoMatrix
    /\ input_data = <<>>
    /\ oldLabels = <<>>
    /\ iter = 0
    /\ changed = TRUE
    /\ oldCenters = <<>>
    /\ pc = "idle"
    /\ seed48 = [mode |-> "none", x |-> <<0, 0, 0, 0>>]
    /\ randCalls = 0
    /\ atCall = [K |-> Indeterminate, centers_ |-> NoMatrix, Labels |-> <<>>]
    /\ ran = {}
    /\ tied = FALSE
    /\ left = {}
    /\ fits = <<>>
    /\ variance = <<>>

NoSampler == [weights |-> <<>>, result |-> <<>>]

NoMatrixPair == [op |-> "none", out |-> [exit |-> FALSE, cerr |-> "", result |-> <<>>]]

Init == EngineInit /\ sampler = NoSampler /\ ops = NoMatrixPair

\* ------------------------------------------------------ the pure functions
\* FindClosestCluster (lines 255-270): the scan i = 0..num_cluster-1 with the
\* strict test dist < minDist; cen is centers_.col.
RECURSIVE ClosestScan(_, _, _, _, _, _)
ClosestScan(cen, queryPoint, num_cluster, i, closestCluster, minDist) ==
    IF i >= num_cluster THEN closestCluster
    ELSE LET dist == SquaredNorm(cen[i], queryPoint)
         IN  IF Less(dist, minDist)
             THEN ClosestScan(cen, queryPoint, num_cluster, i + 1, i, dist)
             ELSE ClosestScan(cen, queryPoint, num_cluster, i + 1, closestCluster, minDist)

FindClosestCluster(cen, queryPoint, num_cluster) ==
    ClosestScan(cen, queryPoint, num_cluster, 0, 0, NumericLimitsMax)

\* GetIndicesWithLabel (lines 140-152): the indices in ascending order.
RECURSIVE IndicesScan(_, _, _)
IndicesScan(labels, label, i) ==
    IF i >= Cardinality(DOMAIN labels) THEN <<>>
    ELSE (IF labels[i] = label THEN <<i>> ELSE <<>>) \o IndicesScan(labels, label, i + 1)

GetIndicesWithLabel(labels, label) == IndicesScan(labels, label, 0)

\* A mean that divides by the number of all samples, not of the members.
RowwiseMeanOverAll(data, indices) ==
    Rat(Cols(data),
        [j \in 1..Rows(data) |-> SumSeq([p \in 1..Len(indices) |-> data[indices[p]][j]])])

\* classPoints.rowwise().mean() (lines 235-248) over the columns indices.
RowwiseMean(data, indices) ==
    Rat(Len(indices),
        [j \in 1..Rows(data) |-> SumSeq([p \in 1..Len(indices) |-> data[indices[p]][j]])])

\* An update that zeroes the centroid of a cluster without samples.
EstimateNewCentersZeroed(data, labels, cen, k) ==
    [cluster \in 0..(k - 1) |->
        LET indicesWithLabel == GetIndicesWithLabel(labels, cluster)
        IN  IF Len(indicesWithLabel) = 0 THEN PointOf([j \in 1..Rows(data) |-> 0])
            ELSE RowwiseMean(data, indicesWithLabel)]

\* EstimateNewCenters (lines 228-253): cen is centers_.col on entry (the copy
\* oldCenters); the result is centers_.col on exit.
EstimateNewCenters(data, labels, cen, k) ==
    [cluster \in 0..(k - 1) |->
        LET indicesWithLabel == GetIndicesWithLabel(labels, cluster)
        IN  IF Len(indicesWithLabel) = 0 THEN cen[cluster]
            ELSE RowwiseMean(data, indicesWithLabel)]

\* AssignLabels (lines 218-226).
AssignLabels(data, cen, k) ==
    [point \in DOMAIN data |-> FindClosestCluster(cen, data[point], k)]

\* ComputeMLEVariance (lines 393-422), T a floating-point type. A value of T
\* is [nan, terms]: not-a-number, or the sum of the terms sqrt(root)/over in
\* the order the code adds them. ErrorScan is the inner loop (lines 410-414)
\* followed by the division at line 416, which a cluster without samples
\* reaches as 0/0.
RECURSIVE ErrorScan(_, _, _, _, _)
ErrorScan(data, clusterCenter, indicesWithLabel, i, terms) ==
    IF i > Len(indicesWithLabel) THEN terms
    ELSE ErrorScan(data, clusterCenter, indicesWithLabel, i + 1,
                   Append(terms, [root |-> SquaredNorm(clusterCenter, data[indicesWithLabel[i]]),
                                  over |-> Len(indicesWithLabel)]))

RECURSIVE VarianceScan(_, _, _, _, _, _)
VarianceScan(data, labels, cen, k, i, overall_variance) ==
    IF i >= k THEN overall_variance
    ELSE LET indicesWithLabel == GetIndicesWithLabel(labels, i)
             variance_ == [nan |-> Len(indicesWithLabel) = 0,
                           terms |-> ErrorScan(data, cen[i], indicesWithLabel, 1, <<>>)]
         IN  VarianceScan(data, labels, cen, k, i + 1,
                          [nan |-> overall_variance.nan \/ variance_.nan,
                           terms |-> overall_variance.terms \o variance_.terms])

ComputeMLEVariance(data, labels, cen, k) ==
    VarianceScan(data, labels, cen, k, 0, [nan |-> FALSE, terms |-> <<>>])

\* A comparison that always reports a change.
CheckChangedStuck(labels, old) == TRUE

\* CheckChanged (lines 204-216).
CheckChanged(labels, old) == \E i \in DOMAIN labels : labels[i] /= old[i]

\* ---------------------------------------------------- SelectWeightedIndex
\* What SelectWeightedIndex returns when it throws (line 198).
Throw == -1

RECURSIVE InsertAsc(_, _)
InsertAsc(x, s) ==
    IF s = <<>> THEN <<x>>
    ELSE IF x <= Head(s) THEN <<x>> \o s ELSE <<Head(s)>> \o InsertAsc(x, Tail(s))

\* std::sort of the normalized weights (line 180); all share the divisor
\* weights.sum(), so the weights themselves are sorted.
RECURSIVE SortAsc(_, _)
SortAsc(w, i) ==
    IF i >= Cardinality(DOMAIN w) THEN <<>> ELSE InsertAsc(w[i], SortAsc(w, i + 1))

\* weights_index_map (lines 174-177): a later index overwrites an earlier
\* one that has the same weight.
RECURSIVE WeightsIndexMap(_, _, _)
WeightsIndexMap(w, i, m) ==
    IF i >= Cardinality(DOMAIN w) THEN m
    ELSE WeightsIndexMap(w, i + 1,
             [key \in DOMAIN m \cup {w[i]} |-> IF key = w[i] THEN i ELSE m[key]])

\* The loop of lines 185-194 on the draw p/q; runningTotal counts in units
\* of 1/sum.
RECURSIVE RunningScan(_, _, _, _, _, _, _)
RunningScan(sorted, m, i, runningTotal, p, q, sum) ==
    IF i > Len(sorted) THEN Throw
    ELSE LET total == runningTotal + sorted[i]
         IN  IF p * sum < total * q THEN m[sorted[i]]
             ELSE RunningScan(sorted, m, i + 1, total, p, q, sum)

\* SelectWeightedIndex (lines 168-201) on the draw randomValue = p/q. A zero
\* sum makes every normalized weight NaN, no comparison succeeds and the
\* function throws.
SelectWeightedIndex(weights, p, q) ==
    LET sum == SumSeq([i \in 1..Cardinality(DOMAIN weights) |-> weights[i - 1]])
    IN  IF sum = 0 THEN Throw
        ELSE RunningScan(SortAsc(weights, 0), WeightsIndexMap(weights, 0, <<>>),
                         1, 0, p, q, sum)

\* ------------------------------------------------------------ initializers
SetMin(S) == CHOOSE x \in S : \A y \in S : x <= y
SetMax(S) == CHOOSE x \in S : \A y \in S : x >= y

\* GetRandomPointInBounds (lines 331-346); ds holds the numerators of the
\* Rows(data) draws, each draw being ds[j]/DrawDen.
GetRandomPointInBounds(data, ds) ==
    Rat(DrawDen,
        [j \in 1..Rows(data) |->
            LET minV == SetMin({data[i][j] : i \in DOMAIN data})
                maxV == SetMax({data[i][j] : i \in DOMAIN data})
            IN  DrawDen * minV + ds[j] * (maxV - minV)])

\* RandomInit (lines 348-355): centroid i takes draws i*rows+1 .. (i+1)*rows.
RandomInit(data, k, ds) ==
    [i \in 0..(k - 1) |->
        GetRandomPointInBounds(data, SubSeq(ds, i * Rows(data) + 1, (i + 1) * Rows(data)))]

\* The loop of KMeansPPInit (lines 366-379). The result says how it ended
\* and how many draws it took.
RECURSIVE KMeansPPLoop(_, _, _, _, _)
KMeansPPLoop(data, cen, k, cluster, ds) ==
    IF cluster >= k THEN [col |-> cen, status |-> "ok", used |-> cluster - 1]
    ELSE LET weights == [i \in DOMAIN data |->
                 SquaredNorm(cen[FindClosestCluster(cen, data[i], cluster)], data[i]).n]
             selectedPointId == SelectWeightedIndex(weights, ds[cluster], DrawDen)
         IN  IF selectedPointId = Throw
             THEN [col |-> cen, status |-> "throw", used |-> cluster]
             ELSE KMeansPPLoop(data, [cen EXCEPT ![cluster] = PointOf(data[selectedPointId])],
                               k, cluster + 1, ds)

\* KMeansPPInit (lines 357-380); randValue is what rand() returned. With
\* K = 0 the write to centers_.col(0) is outside the matrix, which has no
\* storage: the process dies.
KMeansPPInit(data, cen, k, randValue, ds) ==
    IF k = 0 THEN [col |-> cen, status |-> "crash", used |-> 0]
    ELSE LET randomId == randValue % Cols(data)
         IN  KMeansPPLoop(data, [cen EXCEPT ![0] = PointOf(data[randomId])], k, 1, ds)

\* A coefficient nobody has written since its storage was allocated. Its
\* value is indeterminate; the model fixes it when it is first read
\* (Materialize), which no run can tell from fixing it at the allocation.
Unwritten == [den |-> 0, num |-> <<>>]

\* centers_.resize(rows, cols) (line 70): the coefficients are kept when the
\* shape is unchanged and are indeterminate otherwise.
Resize(m, rows, cols) ==
    IF m.rows = rows /\ m.cols = cols THEN m
    ELSE [rows |-> rows, cols |-> cols, col |-> [c \in 0..(cols - 1) |-> Unwritten]]

\* The matrices a read of m may see: every unwritten column holds some value.
Materialize(m) ==
    {[m EXCEPT !.col = [c \in 0..(m.cols - 1) |->
                          IF m.col[c] = Unwritten
                          THEN PointOf([j \in 1..m.rows |-> g[c]]) ELSE m.col[c]]] :
        g \in Vec(m.cols, GarbageVals)}

\* Labels.resize(n) (line 116); AssignLabels writes every entry before any
\* is read.
ResizeLabels(v, n) ==
    IF Cardinality(DOMAIN v) = n THEN v ELSE [i \in 0..(n - 1) |-> Indeterminate]

\* ------------------------------------------------------------- generators
\* drand48 keeps 48 bits of state X, here four 12-bit limbs, lowest first.
\* srand48(s) sets X to s * 2^16 + 0x330E; each draw replaces X by
\* (0x5DEECE66D * X + 0xB) mod 2^48 and returns X / 2^48.
Limb == 4096
Multiplier48 == <<1645, 3790, 1502, 0>>
Addend48 == 11
Seeded0 == <<782, 3, 0, 0>>

\* Limb k (1..4) of the product, before the carries.
Partial48(x, k) ==
    SumSeq([i \in 1..k |-> Multiplier48[i] * x[k + 1 - i]])

Lcg48(x) ==
    LET t1 == Partial48(x, 1) + Addend48
        t2 == Partial48(x, 2) + (t1 \div Limb)
        t3 == Partial48(x, 3) + (t2 \div Limb)
        t4 == Partial48(x, 4) + (t3 \div Limb)
    IN  <<t1 % Limb, t2 % Limb, t3 % Limb, t4 % Limb>>

\* The numerator of a draw, a value of [0,1) cut to a multiple of 1/DrawDen
\* (taken from the top limb of X).
Numerator48(x) == (x[4] * DrawDen) \div Limb

RECURSIVE After48(_, _)
After48(x, n) == IF n = 0 THEN x ELSE After48(Lcg48(x), n - 1)

\* The numerators of n draws: the ones the state fixes after srand48(0), any
\* after srand48(time(NULL)).
Draws(n) ==
    IF seed48.mode = "fixed"
    THEN {[i \in 1..n |-> Numerator48(After48(seed48.x, i))]}
    ELSE [1..n -> 0..(DrawDen - 1)]

\* `used` draws were made. A time-seeded state is not followed; draws past
\* `used` were not made.
Drawn(ds, used) ==
    /\ seed48.mode /= "fixed" => \A i \in DOMAIN ds : i > used => ds[i] = 0
    /\ seed48' = IF seed48.mode = "fixed"
                 THEN [seed48 EXCEPT !.x = After48(seed48.x, used)] ELSE seed48

\* ---------------------------------------------------------------- actions
\* The caller makes MaxFits calls of Fit, setting the two options before any
\* of them, and then makes no further call.
config == <<Random, InitMethod>>
generators == <<seed48, randCalls>>
loopLocals == <<oldLabels, iter, changed, tied, left>>

\* SetRandom (lines 382-385).
SetRandom(r) ==
    /\ pc = "idle"
    /\ Len(fits) < MaxFits
    /\ Random' = r
    /\ UNCHANGED <<Labels, InitMethod, K, centers_, input_data, loopLocals, oldCenters,
                   pc, generators, atCall, ran, fits, variance, sampler, ops>>

\* SetInitMethod (lines 387-390): any int is stored.
SetInitMethod(method) ==
    /\ pc = "idle"
    /\ Len(fits) < MaxFits
    /\ InitMethod' = method
    /\ UNCHANGED <<Labels, Random, K, centers_, input_data, loopLocals, oldCenters,
                   pc, generators, atCall, ran, fits, variance, sampler, ops>>

\* Fit (lines 68-71), up to the call of Cluster.
Fit(data, k) ==
    /\ pc = "idle"
    /\ Len(fits) < MaxFits
    /\ atCall' = [K |-> K, centers_ |-> centers_, Labels |-> Labels]
    /\ ran' = {}
    /\ K' = k
    /\ centers_' = Resize(centers_, Rows(data), k)
    /\ input_data' = data
    /\ pc' = "cluster"
    /\ UNCHANGED <<Labels, config, loopLocals, oldCenters, generators, fits, variance, sampler, ops>>

\* Cluster, lines 76-93: the size check, then the seeding.
ClusterCheck ==
    /\ pc = "cluster"
    /\ IF Cols(input_data) < K
       THEN /\ pc' = "thrown"
            /\ UNCHANGED <<seed48, ran>>
       ELSE /\ seed48' = IF Random THEN [mode |-> "time", x |-> <<0, 0, 0, 0>>]
                                ELSE [mode |-> "fixed", x |-> Seeded0]
            /\ ran' = ran \cup {"seed"}
            /\ pc' = "init"
    /\ UNCHANGED <<Labels, config, K, centers_, input_data, loopLocals, oldCenters,
                   randCalls, atCall, fits, variance, sampler, ops>>

\* Cluster, lines 113-122: what follows a successful initializer.
LoopSetup ==
    /\ oldLabels' = [i \in DOMAIN input_data |-> 0]
    /\ Labels' = ResizeLabels(Labels, Cols(input_data))
    /\ iter' = 0
    /\ changed' = TRUE
    /\ tied' = FALSE
    /\ left' = {}
    /\ ran' = ran \cup {"init"}
    /\ pc' = "assign"

\* Cluster, lines 95-98.
InitRandom ==
    /\ pc = "init"
    /\ InitMethod = RANDOM
    /\ \E ds \in Draws(K * Rows(input_data)) :
          /\ Drawn(ds, Len(ds))
          /\ centers_' = [centers_ EXCEPT !.col = RandomInit(input_data, K, ds)]
    /\ LoopSetup
    /\ UNCHANGED <<config, K, input_data, oldCenters, randCalls, atCall, fits, variance, sampler, ops>>

\* Cluster, lines 99-102.
InitKMeansPP ==
    /\ pc = "init"
    /\ InitMethod = KMEANSPP
    /\ \E randValue \in 0..MaxRand, ds \in Draws(IF K = 0 THEN 0 ELSE K - 1) :
          LET res == KMeansPPInit(input_data, centers_.col, K, randValue, ds)
          IN  /\ Drawn(ds, res.used)
              /\ centers_' = [centers_ EXCEPT !.col = res.col]
              /\ IF res.status = "ok" THEN LoopSetup
                 ELSE /\ pc' = IF res.status = "throw" THEN "thrown" ELSE "crashed"
                      /\ ran' = ran \cup {"init"}
                      /\ UNCHANGED <<Labels, loopLocals>>
    /\ randCalls' = randCalls + 1
    /\ UNCHANGED <<config, K, input_data, oldCenters, atCall, fits, variance, sampler, ops>>

\* Cluster, lines 103-106: nothing is done, and the loop that follows reads
\* centers_ as it stands.
InitManual ==
    /\ pc = "init"
    /\ InitMethod = MANUAL
    /\ centers_' \in Materialize(centers_)
    /\ LoopSetup
    /\ UNCHANGED <<config, K, input_data, oldCenters, generators, atCall, fits, variance, sampler, ops>>

\* Cluster, lines 107-110.
InitInvalid ==
    /\ pc = "init"
    /\ InitMethod \notin {RANDOM, KMEANSPP, MANUAL}
    /\ pc' = "thrown"
    /\ UNCHANGED <<Labels, config, K, centers_, input_data, loopLocals, oldCenters,
                   generators, atCall, ran, fits, variance, sampler, ops>>

\* Whether queryPoint has two of the first num_cluster centroids at its
\* least distance.
Equidistant(cen, queryPoint, num_cluster) ==
    \E i, j \in 0..(num_cluster - 1) :
       /\ i < j
       /\ ~Less(SquaredNorm(cen[i], queryPoint), SquaredNorm(cen[j], queryPoint))
       /\ ~Less(SquaredNorm(cen[j], queryPoint), SquaredNorm(cen[i], queryPoint))
       /\ \A c \in 0..(num_cluster - 1) :
             ~Less(SquaredNorm(cen[c], queryPoint), SquaredNorm(cen[i], queryPoint))

\* Cluster, line 125.
LoopAssign ==
    /\ pc = "assign"
    /\ iter < MaxIter
    /\ Labels' = AssignLabels(input_data, centers_.col, K)
    /\ tied' = (tied \/ \E point \in DOMAIN input_data :
                            Equidistant(centers_.col, input_data[point], K))
    /\ ran' = ran \cup {"assign"}
    /\ pc' = "update"
    /\ UNCHANGED <<config, K, centers_, input_data, oldLabels, iter, changed, left,
                   oldCenters, generators, atCall, fits, variance, sampler, ops>>

\* Cluster, line 127.
LoopUpdate ==
    /\ pc = "update"
    /\ oldCenters' = centers_.col
    /\ centers_' = [centers_ EXCEPT
                      !.col = EstimateNewCenters(input_data, Labels, centers_.col, K)]
    /\ ran' = ran \cup {"update"}
    /\ pc' = "check"
    /\ UNCHANGED <<Labels, config, K, input_data, loopLocals, generators, atCall,
                   fits, variance, sampler, ops>>

\* Cluster, lines 129-134. The labels of the round before, now replaced by
\* others, are an assignment the loop has left.
LoopCheck ==
    /\ pc = "check"
    /\ changed' = CheckChanged(Labels, oldLabels)
    /\ left' = IF changed' /\ iter > 0 THEN left \cup {oldLabels} ELSE left
    /\ oldLabels' = Labels
    /\ iter' = iter + 1
    /\ pc' = IF changed' THEN "assign" ELSE "done"
    /\ UNCHANGED <<Labels, config, K, centers_, input_data, tied, oldCenters,
                   generators, atCall, ran, fits, variance, sampler, ops>>

\* The caller asks for the variance of the fit that has just returned, on
\* the data of that fit, once.
CallComputeMLEVariance ==
    /\ pc = "done"
    /\ variance = <<>>
    /\ variance' = <<ComputeMLEVariance(input_data, Labels, centers_.col, K)>>
    /\ UNCHANGED <<Labels, config, K, centers_, input_data, loopLocals, oldCenters,
                   pc, generators, atCall, ran, fits, sampler, ops>>

\* Fit returns, or its exception reaches the caller, who goes on; the locals
\* of the call are gone.
Return ==
    /\ pc \in {"done", "thrown"}
    /\ fits' = Append(fits, [data |-> input_data, k |-> K, method |-> InitMethod,
                             random |-> Random, ok |-> pc = "done",
                             labels |-> Labels])
    /\ pc' = "idle"
    /\ input_data' = <<>>
    /\ oldLabels' = <<>>
    /\ iter' = 0
    /\ changed' = TRUE
    /\ tied' = FALSE
    /\ left' = {}
    /\ oldCenters' = <<>>
    /\ atCall' = [K |-> Indeterminate, centers_ |-> NoMatrix, Labels |-> <<>>]
    /\ ran' = {}
    /\ variance' = <<>>
    /\ UNCHANGED <<Labels, config, K, centers_, generators, sampler, ops>>

Loop == LoopAssign \/ LoopUpdate \/ LoopCheck

Next ==
    \/ \E r \in BOOLEAN : SetRandom(r)
    \/ \E method \in 0..3 : SetInitMethod(method)
    \/ \E data \in Datasets, k \in 0..MaxK : Fit(data, k)
    \/ ClusterCheck
    \/ InitRandom
    \/ InitKMeansPP
    \/ InitManual
    \/ InitInvalid
    \/ Loop
    \/ CallComputeMLEVariance
    \/ Return

Spec == Init /\ [][Next]_vars

\* ------------------------------------------- SelectWeightedIndex on its own
WeightVectors ==
    UNION {Vec(n, 0..MaxWeight) : n \in 1..MaxWeights}

WeightSum(w) == SumSeq([i \in 1..Cardinality(DOMAIN w) |-> w[i - 1]])

\* The draws p/sum, p = 0..sum-1: every break point of the cumulative sums
\* is one of them, so index i is returned on w(i)/sum of [0,1) exactly when
\* it is returned for w(i) of these draws.
DrawGrid(w) == IF WeightSum(w) = 0 THEN 1 ELSE WeightSum(w)

SamplerInit ==
    /\ EngineInit
    /\ sampler \in {[weights |-> w, result |-> <<>>] : w \in WeightVectors}
    /\ ops = NoMatrixPair

\* One call of SelectWeightedIndex on the next draw of the grid.
SamplerCall ==
    /\ Len(sampler.result) < DrawGrid(sampler.weights)
    /\ sampler' = [sampler EXCEPT !.result =
           Append(@, SelectWeightedIndex(sampler.weights, Len(@), DrawGrid(sampler.weights)))]
    /\ UNCHANGED <<engine, ops>>

SamplerNext == SamplerCall

SamplerSpec == SamplerInit /\ [][SamplerNext]_vars

\* ------------------------------------------------ CpuOperations on its own
\* Matrices of up to MaxDim rows and columns, with coefficients in S.
Matrices(S) ==
    UNION {{[rows |-> r, cols |-> c, coeff |-> f] :
               f \in [(0..(r - 1)) \X (0..(c - 1)) -> S]} :
           r \in 0..MaxDim, c \in 0..MaxDim}

\* std::cerr << msg; exit(1): the process ends and no matrix is returned.
Exit(msg) == [exit |-> TRUE, cerr |-> msg, result |-> <<>>]

Returned(m) == [exit |-> FALSE, cerr |-> "", result |-> <<m>>]

\* An addition that looks for an empty operand before comparing the sizes.
AddEmptyFirst(a, b) ==
    IF a.rows = 0 THEN Exit("MATRICIES ARE EMPTY")
    ELSE IF (a.rows /= b.rows) \/ (a.cols /= b.cols)
         THEN Exit("MATRICIES ARE NOT THE SAME SIZE")
    ELSE Returned([a EXCEPT !.coeff = [x \in DOMAIN a.coeff |-> a.coeff[x] + b.coeff[x]]])

\* CpuOperations::Add(matrix, matrix) (cpu_operations.h lines 87-102).
Add(a, b) ==
    IF (a.rows /= b.rows) \/ (a.cols /= b.cols)
    THEN Exit("MATRICIES ARE NOT THE SAME SIZE")
    ELSE IF a.rows = 0 THEN Exit("MATRICIES ARE EMPTY")
    ELSE Returned([a EXCEPT !.coeff = [x \in DOMAIN a.coeff |-> a.coeff[x] + b.coeff[x]]])

\* CpuOperations::LogicalAnd(matrix, matrix) (cpu_operations.h lines 170-179).
LogicalAnd(a, b) ==
    IF (a.rows /= b.rows) \/ (a.cols /= b.cols)
    THEN Exit("MATRICES ARE NOT THE SAME SIZE!")
    ELSE Returned([a EXCEPT !.coeff = [x \in DOMAIN a.coeff |-> a.coeff[x] /\ b.coeff[x]]])

\* A program calls the operations one after the other until one of them
\* ends the process.
CallAdd ==
    /\ ~ops.out.exit
    /\ \E a, b \in Matrices(0..1) :
          ops' = [op |-> "Add", a |-> a, b |-> b, out |-> Add(a, b)]
    /\ UNCHANGED <<engine, sampler>>

CallLogicalAnd ==
    /\ ~ops.out.exit
    /\ \E a, b \in Matrices(BOOLEAN) :
          ops' = [op |-> "LogicalAnd", a |-> a, b |-> b, out |-> LogicalAnd(a, b)]
    /\ UNCHANGED <<engine, sampler>>

OpsNext == CallAdd \/ CallLogicalAnd

OpsSpec == Init /\ [][OpsNext]_vars

\* ------------------------------------------------------------------ claims
Members(c) == {i \in DOMAIN Labels : Labels[i] = c}

RECURSIVE SumCoord(_, _, _)
SumCoord(data, M, j) ==
    IF M = {} THEN 0
    ELSE LET i == CHOOSE x \in M : TRUE IN data[i][j] + SumCoord(data, M \ {i}, j)

\* c is a centroid index among the first k at the least distance from
\* point q, and the lowest such index.
LowestNearest(cen, q, k, c) ==
    /\ c \in 0..(k - 1)
    /\ \A o \in 0..(k - 1) : ~Less(SquaredNorm(cen[o], q), SquaredNorm(cen[c], q))
    /\ \A o \in 0..(c - 1) : Less(SquaredNorm(cen[c], q), SquaredNorm(cen[o], q))

\* C1: when Fit returns normally the Label Vector has one entry per sample
\* and every entry is a cluster id in [0, K).
C1_LabelsInRange ==
    pc = "done" =>
        /\ DOMAIN Labels = DOMAIN input_data
        /\ \A i \in DOMAIN Labels : Labels[i] \in 0..(K - 1)

\* C2: a Fit call with K greater than the sample count or with an unknown
\* initialization method is rejected before any initializer, assignment or
\* update step has run and before any field of the engine is written; a K
\* equal to the sample count passes the size check.
C2_ErrorBeforeAnyWrite ==
    /\ (pc = "thrown" /\ (Cols(input_data) < K \/ InitMethod \notin {RANDOM, KMEANSPP, MANUAL})) =>
          /\ ran \cap {"init", "assign", "update"} = {}
          /\ K = atCall.K
          /\ centers_ = atCall.centers_
          /\ Labels = atCall.Labels
    /\ (pc = "thrown" /\ ran = {}) => Cols(input_data) < K

\* C3: with Random = false and the method RANDOM or KMEANSPP, two Fit calls
\* of one process on the same dataset and K return the same labels.
C3_FixedSeedDeterministic ==
    \A a, b \in DOMAIN fits :
        (/\ fits[a].ok /\ fits[b].ok
         /\ ~fits[a].random /\ ~fits[b].random
         /\ fits[a].method \in {RANDOM, KMEANSPP}
         /\ fits[a].method = fits[b].method
         /\ fits[a].data = fits[b].data
         /\ fits[a].k = fits[b].k)
        => fits[a].labels = fits[b].labels

\* C4: in a call in which no sample was ever at the same least distance from
\* two centroids, the loop never returns to a label assignment it has left,
\* and it ends: it is never cut short by the bound on the rounds.
C4_LoopEnds ==
    ~tied =>
        /\ pc \in {"update", "check"} => Labels \notin left
        /\ pc = "assign" => iter < MaxIter

C4_Witness ==
    /\ pc = "done"
    /\ ~tied
    /\ left /= {}
    /\ iter >= 3

\* C5: when Fit returns, the centroid of every cluster that has a sample is
\* the per-feature mean of the samples carrying its label.
C5_CentroidIsMean ==
    pc = "done" =>
        \A c \in 0..(K - 1) :
            Members(c) /= {} =>
                \A j \in 1..Rows(input_data) :
                    centers_.col[c].num[j] * Cardinality(Members(c))
                        = centers_.col[c].den * SumCoord(input_data, Members(c), j)

C5_Witness ==
    /\ pc = "done"
    /\ K >= 2
    /\ \A c \in 0..(K - 1) : Members(c) /= {}
    /\ \E c \in 0..(K - 1) : Cardinality(Members(c)) >= 2 /\ centers_.col[c].den > 1

\* C6: an update step leaves the centroid of every cluster that has no
\* sample as it was before the step.
C6_EmptyClusterKept ==
    [][(pc = "update" /\ pc' = "check") =>
          \A c \in 0..(K - 1) : Members(c) = {} => centers_'.col[c] = centers_.col[c]]_vars

C6_Witness ==
    /\ pc = "check"
    /\ \E c \in 0..(K - 1) : Members(c) = {} /\ centers_.col[c] = oldCenters[c]
    /\ \E c \in 0..(K - 1) : Members(c) /= {} /\ centers_.col[c] /= oldCenters[c]

\* C7: in MANUAL mode the first assignment uses the centroids the engine
\* held when Fit was called, and on the four points (0,0), (0,1), (10,0),
\* (10,1) with K = 2 and the centroids (0,0), (10,0) Fit ends within 2
\* rounds with the first two samples in one cluster and the last two in the
\* other.
C7_ManualCentroidsUsed ==
    /\ (InitMethod = MANUAL /\ pc = "assign" /\ iter = 0) =>
          \E m \in Materialize(atCall.centers_) : centers_.col = m.col
    /\ (InitMethod = MANUAL /\ pc = "done" /\ input_data = ScenarioA /\ K = 2) =>
          /\ iter <= 2
          /\ Labels[0] = Labels[1] /\ Labels[2] = Labels[3] /\ Labels[0] /= Labels[2]

\* C10: the assignment step gives every sample the lowest index among the
\* centroids at its least distance, writes every entry of Labels and
\* changes neither the dataset nor the centroids.
C10_AssignNearestLowest ==
    [][(pc = "assign" /\ pc' = "update") =>
          /\ DOMAIN Labels' = DOMAIN input_data
          /\ \A p \in DOMAIN input_data :
                LowestNearest(centers_.col, input_data[p], K, Labels'[p])
          /\ centers_' = centers_
          /\ input_data' = input_data]_vars

\* ------------------------------------------- claims on SelectWeightedIndex
\* The draws of the grid, as made so far, on which index i was returned.
DrawsReturning(i) == {p \in 1..Len(sampler.result) : sampler.result[p] = i}

\* The first index, in the order of the weights, whose cumulative sum
\* exceeds the draw p/sum.
RECURSIVE FirstExceeding(_, _, _, _)
FirstExceeding(w, p, i, cumulative) ==
    IF cumulative + w[i] > p THEN i ELSE FirstExceeding(w, p, i + 1, cumulative + w[i])

\* C8: every index is returned on a share of the draws equal to its share
\* of the weights.
C8_Proportional ==
    (WeightSum(sampler.weights) > 0 /\ Len(sampler.result) = DrawGrid(sampler.weights)) =>
        \A i \in DOMAIN sampler.weights :
            Cardinality(DrawsReturning(i)) = sampler.weights[i]

\* C9: the index returned is the first one, in the original order of the
\* weights, whose cumulative sum exceeds the draw.
C9_FirstInOriginalOrder ==
    WeightSum(sampler.weights) > 0 =>
        \A p \in 1..Len(sampler.result) :
            sampler.result[p] = FirstExceeding(sampler.weights, p - 1, 0, 0)

\* C13: when Fit returns with at least one centroid, the labels are a fixed
\* point of assignment against the centroids as the last update left them:
\* every sample's label is the lowest index among the centroids nearest to
\* it, also when the loop stopped after its first round.
C13_FixedPointAtReturn ==
    (pc = "done" /\ K >= 1) =>
        \A p \in DOMAIN Labels :
           LowestNearest(centers_.col, input_data[p], K, Labels[p])

\* C14: a Fit that aborts after a successful Fit (more clusters than samples,
\* or an unrecognized initialization method) leaves K, the centroids and the
\* labels as they were before the failing call, so the number of centroid
\* columns still equals K and the labels still name centroids.
C14_NoPartialState ==
    (/\ pc = "thrown"
     /\ Len(fits) >= 1
     /\ fits[Len(fits)].ok
     /\ (Cols(input_data) < K \/ InitMethod \notin {RANDOM, KMEANSPP, MANUAL})) =>
        /\ K = atCall.K
        /\ centers_ = atCall.centers_
        /\ Labels = atCall.Labels
        /\ centers_.cols = K
        /\ \A i \in DOMAIN Labels : Labels[i] \in 0..(K - 1) \/ K = 0

\* The sum the variance is to be: over the clusters in order, the distances
\* of the members to the centroid, each over the member count; a cluster
\* without members adds nothing.
RECURSIVE MeanDistances(_)
MeanDistances(c) ==
    IF c >= K THEN <<>>
    ELSE LET ind == GetIndicesWithLabel(Labels, c)
         IN  [p \in 1..Len(ind) |->
                 [root |-> SquaredNorm(centers_.col[c], input_data[ind[p]]),
                  over |-> Len(ind)]] \o MeanDistances(c + 1)

\* C11: ComputeMLEVariance returns the sum over the K clusters of the mean
\* distance of the members to the centroid, a cluster without members
\* contributing zero: a finite sum also after a fit that left a cluster empty.
C11_VarianceFiniteSum ==
    variance /= <<>> =>
        variance[1] = [nan |-> FALSE, terms |-> MeanDistances(0)]

\* The operands of the last call differ in their row or column counts.
SizesDiffer == ops.a.rows /= ops.b.rows \/ ops.a.cols /= ops.b.cols

\* C12: Add and LogicalAnd on two matrices whose row counts or column counts
\* differ end the process with the size-mismatch message and return no
\* matrix; the size check comes before the check for empty operands and
\* before the elementwise computation.
C12_SizeMismatchFatal ==
    (ops.op \in {"Add", "LogicalAnd"} /\ SizesDiffer) =>
        /\ ops.out.exit
        /\ ops.out.result = <<>>
        /\ ops.out.cerr = IF ops.op = "Add" THEN "MATRICIES ARE NOT THE SAME SIZE"
                                             ELSE "MATRICES ARE NOT THE SAME SIZE!"

C12_Witness ==
    /\ ops.op = "Add"
    /\ SizesDiffer
    /\ ops.a.rows = 0
    /\ ops.b.rows > 0
    /\ ops.out.exit
    /\ ops.out.cerr = "MATRICIES ARE NOT THE SAME SIZE"
====
